---- MODULE Spec2Model ----
(***************************************************************************)
(* Veonix: GeminiClient.analyze_image_with_prompt and its helpers          *)
(* (_extract_json, _attempt_repair), src/app/services/gemini_client.py.    *)
(*                                                                         *)
(* A text is a sequence of one-character strings.  json.loads is modelled  *)
(* by a recursive-descent decoder over the characters the texts are made   *)
(* of (braces, brackets, comma, colon, quote, space, newline, backquote,   *)
(* the digit 1, the letters a j s o n); a decoded value is a record        *)
(* [t, s, m]:                                                              *)
(*   t = "obj"  m = the members, each [t |-> "mem", s |-> key, m |-> <<v>>]*)
(*   t = "arr"  m = the elements                                           *)
(*   t = "str"  s = the characters between the quotes                      *)
(*   t = "num"  s = the digits                                             *)
(* Over these characters the JSON values are exactly the objects, arrays,  *)
(* strings without escapes and numbers made of the digit 1 (no literal     *)
(* such as true or null can be spelled).  The members of an object are     *)
(* kept in insertion order, which tells apart more values than the         *)
(* equality of Python dicts does.                                          *)
(***************************************************************************)
EXTENDS Integers, Sequences, FiniteSets, TLC

VARIABLES
  response,   \* what the upstream model does for this request:
              \*   [kind, text, cause], kind in "text" | "notext" | "raise"
  given,      \* how response.text was put together: [pre, body, post]
  pc,         \* the position in analyze_image_with_prompt
  raw_text,   \* line 74
  cleaned,    \* line 77
  exc,        \* the exception in flight inside the outer try: [type, detail]
  outcome,    \* what the caller got: [kind, val, status, detail]
  steps,      \* the steps this invocation has run, in order
  calls,      \* the calls of model.generate_content in this invocation
  inv,        \* the number of this invocation
  prev        \* the outcome of the invocation before this one

vars == <<response, given, pc, raw_text, cleaned, exc, outcome, steps, calls, inv, prev>>

\* ------------------------------------------------------------------ text

LB == "{"
RB == "}"
LK == "["
RK == "]"
CM == ","
CL == ":"
QT == "\""
SP == " "
NL == "\n"
\* The backquote character (a TLA+ string cannot hold one: "^" stands for it).
BT == "^"

\* str.strip() and the JSON decoder skip these.
WS == {SP, NL}
\* json (strict) rejects a control character inside a string literal.
Control == {NL}
Digits == {"1"}

\* text.count(ch)
Count(text, ch) == Cardinality({i \in 1..Len(text) : text[i] = ch})

RECURSIVE LStrip(_)
LStrip(text) ==
  IF text # <<>> /\ Head(text) \in WS THEN LStrip(Tail(text)) ELSE text

RECURSIVE RStrip(_)
RStrip(text) ==
  IF text # <<>> /\ text[Len(text)] \in WS
    THEN RStrip(SubSeq(text, 1, Len(text) - 1))
    ELSE text

\* text.strip()
Strip(text) == RStrip(LStrip(text))

\* text[i .. i+Len(pat)-1] = pat
MatchAt(text, i, pat) ==
  /\ i + Len(pat) - 1 <= Len(text)
  /\ \A k \in 1..Len(pat) : text[i + k - 1] = pat[k]

RECURSIVE ReplaceFrom(_, _, _, _)
ReplaceFrom(text, i, pat, rep) ==
  IF i > Len(text) THEN <<>>
  ELSE IF MatchAt(text, i, pat)
    THEN rep \o ReplaceFrom(text, i + Len(pat), pat, rep)
    ELSE <<text[i]>> \o ReplaceFrom(text, i + 1, pat, rep)

\* text.replace(pat, rep): every non-overlapping occurrence, left to right,
\* in one pass (pat is never empty here).
Replace(text, pat, rep) == ReplaceFrom(text, 1, pat, rep)

\* ------------------------------------------------------------ json.loads

Failure == [ok |-> FALSE, pos |-> 0, val |-> [t |-> "none", s |-> <<>>, m |-> <<>>]]
Parsed(p, v) == [ok |-> TRUE, pos |-> p, val |-> v]

Num(digits) == [t |-> "num", s |-> digits, m |-> <<>>]
Str(chars) == [t |-> "str", s |-> chars, m |-> <<>>]
Arr(elems) == [t |-> "arr", s |-> <<>>, m |-> elems]
Obj(members) == [t |-> "obj", s |-> <<>>, m |-> members]
Mem(key, v) == [t |-> "mem", s |-> key, m |-> <<v>>]

\* dict[key] = v: a repeated key keeps its place and takes the later value.
Put(members, key, v) ==
  IF \E i \in 1..Len(members) : members[i].s = key
    THEN [i \in 1..Len(members) |->
            IF members[i].s = key THEN Mem(key, v) ELSE members[i]]
    ELSE Append(members, Mem(key, v))

RECURSIVE SkipWS(_, _)
\* The first position at or after i that holds no whitespace.
SkipWS(text, i) ==
  IF i <= Len(text) /\ text[i] \in WS THEN SkipWS(text, i + 1) ELSE i

RECURSIVE DigitsEnd(_, _)
DigitsEnd(text, i) ==
  IF i <= Len(text) /\ text[i] \in Digits THEN DigitsEnd(text, i + 1) ELSE i

RECURSIVE QuoteEnd(_, _)
\* The position of the quote closing a string whose content starts at i;
\* 0 when the string is unterminated or holds a control character.
QuoteEnd(text, i) ==
  IF i > Len(text) THEN 0
  ELSE IF text[i] = QT THEN i
  ELSE IF text[i] \in Control THEN 0
  ELSE QuoteEnd(text, i + 1)

\* A string literal whose opening quote is at i.
ParseString(text, i) ==
  LET j == QuoteEnd(text, i + 1)
  IN IF j = 0 THEN Failure ELSE Parsed(j + 1, Str(SubSeq(text, i + 1, j - 1)))

RECURSIVE ParseValue(_, _)
RECURSIVE ParseMembers(_, _, _)
RECURSIVE ParseElems(_, _, _)

\* scan_once: the value that starts exactly at i.
ParseValue(text, i) ==
  IF i > Len(text) THEN Failure
  ELSE IF text[i] = QT THEN ParseString(text, i)
  ELSE IF text[i] = LB THEN
    LET j == SkipWS(text, i + 1)
    IN IF j <= Len(text) /\ text[j] = RB THEN Parsed(j + 1, Obj(<<>>))
       ELSE ParseMembers(text, j, <<>>)
  ELSE IF text[i] = LK THEN
    LET j == SkipWS(text, i + 1)
    IN IF j <= Len(text) /\ text[j] = RK THEN Parsed(j + 1, Arr(<<>>))
       ELSE ParseElems(text, j, <<>>)
  ELSE IF text[i] \in Digits THEN
    LET j == DigitsEnd(text, i)
    IN Parsed(j, Num(SubSeq(text, i, j - 1)))
  ELSE Failure

\* JSONObject: a key is expected at i; acc holds the members read so far.
ParseMembers(text, i, acc) ==
  IF i > Len(text) \/ text[i] # QT THEN Failure
  ELSE
    LET k == ParseString(text, i)
    IN IF ~k.ok THEN Failure
       ELSE
         LET c == SkipWS(text, k.pos)
         IN IF c > Len(text) \/ text[c] # CL THEN Failure
            ELSE
              LET v == ParseValue(text, SkipWS(text, c + 1))
              IN IF ~v.ok THEN Failure
                 ELSE
                   LET e == SkipWS(text, v.pos)
                       acc2 == Put(acc, k.val.s, v.val)
                   IN IF e > Len(text) THEN Failure
                      ELSE IF text[e] = RB THEN Parsed(e + 1, Obj(acc2))
                      ELSE IF text[e] = CM
                        THEN ParseMembers(text, SkipWS(text, e + 1), acc2)
                      ELSE Failure

\* JSONArray: an element is expected at i; acc holds the elements read so far.
ParseElems(text, i, acc) ==
  LET v == ParseValue(text, i)
  IN IF ~v.ok THEN Failure
     ELSE
       LET e == SkipWS(text, v.pos)
           acc2 == Append(acc, v.val)
       IN IF e > Len(text) THEN Failure
          ELSE IF text[e] = RK THEN Parsed(e + 1, Arr(acc2))
          ELSE IF text[e] = CM THEN ParseElems(text, SkipWS(text, e + 1), acc2)
          ELSE Failure

\* json.loads(text): leading whitespace, one value, trailing whitespace, end
\* of text.  ok = FALSE stands for json.JSONDecodeError.
Decode(text) ==
  LET v == ParseValue(text, SkipWS(text, 1))
  IN IF v.ok /\ SkipWS(text, v.pos) = Len(text) + 1
       THEN [ok |-> TRUE, val |-> v.val]
       ELSE [ok |-> FALSE, val |-> Failure.val]

\* ---------------------------------------------------------- GeminiClient

FenceJson == <<BT, BT, BT, "j", "s", "o", "n">>
Fence == <<BT, BT, BT>>

\* The positions of the first "{" and of the last "}" of the text (0: none).
FirstOpen(text) ==
  IF \E i \in 1..Len(text) : text[i] = LB
    THEN CHOOSE i \in 1..Len(text) :
           text[i] = LB /\ \A k \in 1..(i - 1) : text[k] # LB
    ELSE 0
LastClose(text) ==
  IF \E i \in 1..Len(text) : text[i] = RB
    THEN CHOOSE i \in 1..Len(text) :
           text[i] = RB /\ \A k \in (i + 1)..Len(text) : text[k] # RB
    ELSE 0

\* Mutant of SearchBraces: a lazy match, from the first "{" to the first "}"
\* after it.
SearchBracesLazy(text) ==
  LET a == FirstOpen(text)
      later == {i \in 1..Len(text) : i > a /\ text[i] = RB}
  IN IF a # 0 /\ later # {}
       THEN [found |-> TRUE,
             group |-> SubSeq(text, a, CHOOSE i \in later : \A k \in later : i <= k)]
       ELSE [found |-> FALSE, group |-> <<>>]

\* re.search of an opening brace, any characters, a closing brace (greedy):
\* the match runs from the first "{" of the text to the last "}" after
\* it; found = FALSE when no "}" follows the first "{".
SearchBraces(text) ==
  LET a == FirstOpen(text)
      b == LastClose(text)
  IN IF a # 0 /\ b > a
       THEN [found |-> TRUE, group |-> SubSeq(text, a, b)]
       ELSE [found |-> FALSE, group |-> <<>>]

\* GeminiClient._extract_json (the text is always a str here: line 74).
extract_json(text) ==
  LET t1 == Strip(text)
      t2 == Replace(t1, FenceJson, <<>>)
      t3 == Strip(Replace(t2, Fence, <<>>))
      match == SearchBraces(t3)
  IN IF match.found THEN Strip(match.group) ELSE t3

\* Mutant of MissingBrace: the counts compared without the "+ 1".
MissingBraceBalanced(text) == Count(text, LB) = Count(text, RB)

\* The first heuristic of _attempt_repair: its guard and its candidate.
MissingBrace(text) == Count(text, LB) = Count(text, RB) + 1
WithBrace(text) == text \o <<RB>>

\* Mutant of RemoveTrailingCommas: the ",]" replacement left out.
RemoveCommaBraceOnly(text) == Replace(text, <<CM, RB>>, <<RB>>)

\* The second heuristic of _attempt_repair: its candidate.
RemoveTrailingCommas(text) ==
  Replace(Replace(text, <<CM, RB>>, <<RB>>), <<CM, RK>>, <<RK>>)

NoVal == Failure.val
NoExc == [type |-> "none", status |-> 0, detail |-> <<>>]
HTTPException(code, detail) == [type |-> "HTTPException", status |-> code, detail |-> detail]

RepairFailedDetail == <<"Gemini returned invalid JSON (repair failed).">>
VisionErrorDetail(cause) == <<"Gemini Vision API Error: ", cause>>

\* Mutant of attempt_repair: the heuristics chained, the second working on the
\* candidate of the first.
attempt_repair_chained(text) ==
  LET candidate == IF MissingBrace(text) THEN WithBrace(text) ELSE text
      first == Decode(candidate)
      second == Decode(RemoveTrailingCommas(candidate))
  IN IF MissingBrace(text) /\ first.ok
       THEN [raised |-> FALSE, val |-> first.val]
     ELSE IF second.ok
       THEN [raised |-> FALSE, val |-> second.val]
     ELSE [raised |-> TRUE, val |-> NoVal]

\* Mutant of attempt_repair: a repair budget kept in the client, spent by the
\* first invocation.
attempt_repair_once(text) ==
  LET candidate == Decode(WithBrace(text))
      trimmed == Decode(RemoveTrailingCommas(text))
  IN IF inv > 1 THEN [raised |-> TRUE, val |-> NoVal]
     ELSE IF MissingBrace(text) /\ candidate.ok
       THEN [raised |-> FALSE, val |-> candidate.val]
     ELSE IF trimmed.ok
       THEN [raised |-> FALSE, val |-> trimmed.val]
     ELSE [raised |-> TRUE, val |-> NoVal]

\* GeminiClient._attempt_repair: what it returns, or the HTTPException it
\* raises.
attempt_repair(text) ==
  LET candidate == Decode(WithBrace(text))
      trimmed == Decode(RemoveTrailingCommas(text))
  IN IF MissingBrace(text) /\ candidate.ok
       THEN [raised |-> FALSE, val |-> candidate.val]
     ELSE IF trimmed.ok
       THEN [raised |-> FALSE, val |-> trimmed.val]
     ELSE [raised |-> TRUE, val |-> NoVal]

\* ------------------------------------------------- the upstream's answers

\* The nesting depth of the values the upstream writes.
MaxDepth == 2
\* The invocations made on one captured response.
MaxInvocations == 2

\* Scalars: a number, a string holding ",}", a string holding a fence.
Atoms == {<<"1">>, <<QT, CM, RB, QT>>, <<QT, BT, BT, BT, QT>>}

KeyA == <<QT, "a", QT, CL>>
KeyN == <<QT, "n", QT, CL, SP>>

RECURSIVE Values(_)
\* The value texts of nesting depth at most d, well formed or with a comma
\* before a closing bracket or brace.
Values(d) ==
  IF d = 0 THEN Atoms
  ELSE LET V == Values(d - 1)
       IN V \cup {<<LK, RK>>, <<LB, RB>>}
            \cup {<<LK>> \o v \o <<RK>> : v \in V}
            \cup {<<LK>> \o v \o <<CM, RK>> : v \in V}
            \cup {<<LK>> \o v \o <<CM, SP, "1", RK>> : v \in V}
            \cup {<<LB>> \o KeyA \o v \o <<RB>> : v \in V}
            \cup {<<LB>> \o KeyA \o v \o <<CM, RB>> : v \in V}
            \cup {<<LB>> \o KeyA \o v \o <<CM>> \o KeyN \o <<"1", RB>> : v \in V}

\* A generation cut short: the last character is missing.
CutShort(text) == SubSeq(text, 1, Len(text) - 1)

\* What the model writes where the JSON should be: nothing, a value, or a
\* value cut short.
Bodies ==
  {<<>>} \cup Values(MaxDepth) \cup {CutShort(v) : v \in Values(MaxDepth)}

\* What the model writes around it: <<before, after>>.
Wraps ==
  { <<<<>>, <<>>>>,
    <<FenceJson \o <<NL>>, <<NL>> \o Fence>>,
    <<Fence \o <<NL>>, <<NL>> \o Fence \o <<NL>>>>,
    <<<<"a", SP>> \o FenceJson \o <<NL>>, <<NL>> \o Fence \o <<SP, "a">>>>,
    <<<<"n", "o", CL, SP>>, <<SP, "[", "1", "]">>>>,
    <<<<BT>> \o FenceJson \o <<SP>>, <<SP, BT>> \o Fence>>,
    <<<<QT, "a", QT, CM, SP>>, <<CM, RK>>>>,
    <<<<>>, <<SP, "a", RB>>>>,
    <<<<LB, "a", SP>>, <<>>>> }

Causes == {"quota", "blocked"}

Responses ==
  {[kind |-> "text", text |-> w[1] \o b \o w[2], cause |-> "",
    pre |-> w[1], body |-> b, post |-> w[2]] : w \in Wraps, b \in Bodies}
  \cup {[kind |-> "notext", text |-> <<>>, cause |-> "",
         pre |-> <<>>, body |-> <<>>, post |-> <<>>]}
  \cup {[kind |-> "raise", text |-> <<>>, cause |-> c,
         pre |-> <<>>, body |-> <<>>, post |-> <<>>] : c \in Causes}

\* ------------------------------------------- analyze_image_with_prompt

NoOutcome == [kind |-> "none", val |-> NoVal, status |-> 0, detail |-> <<>>]
Returned(v) == [kind |-> "returned", val |-> v, status |-> 0, detail |-> <<>>]
Raised(e) ==
  [kind |-> e.type, val |-> NoVal,
   status |-> IF e.type = "HTTPException" THEN e.status ELSE 0,
   detail |-> e.detail]

Init ==
  /\ \E r \in Responses :
       /\ response = [kind |-> r.kind, text |-> r.text, cause |-> r.cause]
       /\ given = [pre |-> r.pre, body |-> r.body, post |-> r.post]
  /\ pc = "call"
  /\ raw_text = <<>>
  /\ cleaned = <<>>
  /\ exc = NoExc
  /\ outcome = NoOutcome
  /\ steps = <<>>
  /\ calls = 0
  /\ inv = 1
  /\ prev = NoOutcome

\* Mutant of GenerateContent: a failed call passed over, the invocation going
\* on with the empty text.
GenerateContentSwallow ==
  /\ pc = "call"
  /\ steps' = Append(steps, "call")
  /\ calls' = calls + 1
  /\ raw_text' = IF response.kind = "text" THEN response.text ELSE <<>>
  /\ pc' = "locate"
  /\ UNCHANGED <<response, given, cleaned, exc, outcome, inv, prev>>

\* Lines 65-74: the one call of the model.  A failure of the call (or of
\* reading response.text) is an exception of the client library; a response
\* without text gives the empty text.
GenerateContent ==
  /\ pc = "call"
  /\ steps' = Append(steps, "call")
  /\ calls' = calls + 1
  /\ IF response.kind = "raise"
       THEN /\ exc' = [type |-> "Exception", status |-> 0, detail |-> <<response.cause>>]
            /\ pc' = "except"
            /\ UNCHANGED raw_text
       ELSE /\ raw_text' = IF response.kind = "text" THEN response.text ELSE <<>>
            /\ pc' = "locate"
            /\ UNCHANGED exc
  /\ UNCHANGED <<response, given, cleaned, outcome, inv, prev>>

\* Lines 77-78.
ExtractJson ==
  /\ pc = "locate"
  /\ steps' = Append(steps, "locate")
  /\ cleaned' = extract_json(raw_text)
  /\ pc' = "decode"
  /\ UNCHANGED <<response, given, raw_text, exc, outcome, calls, inv, prev>>

\* Mutant of FirstAttempt: the decoded value not returned, the repair entered
\* in every case.
FirstAttemptFallThrough ==
  /\ pc = "decode"
  /\ steps' = Append(steps, "decode")
  /\ pc' = "repair"
  /\ UNCHANGED <<response, given, raw_text, cleaned, exc, outcome, calls, inv, prev>>

\* Lines 81-84: the first attempt; a JSONDecodeError is passed over.
FirstAttempt ==
  /\ pc = "decode"
  /\ steps' = Append(steps, "decode")
  /\ IF Decode(cleaned).ok
       THEN /\ outcome' = Returned(Decode(cleaned).val)
            /\ pc' = "done"
       ELSE /\ pc' = "repair"
            /\ UNCHANGED outcome
  /\ UNCHANGED <<response, given, raw_text, cleaned, exc, calls, inv, prev>>

\* Lines 87-88, with _attempt_repair (lines 125-149).
AttemptRepair ==
  /\ pc = "repair"
  /\ steps' = Append(steps, "repair")
  /\ LET repaired == attempt_repair(cleaned)
     IN IF repaired.raised
          THEN /\ exc' = HTTPException(502, RepairFailedDetail)
               /\ pc' = "except"
               /\ UNCHANGED outcome
          ELSE /\ outcome' = Returned(repaired.val)
               /\ pc' = "done"
               /\ UNCHANGED exc
  /\ UNCHANGED <<response, given, raw_text, cleaned, calls, inv, prev>>

\* Mutant of HandleException: no clause for the other exceptions, which go on
\* to the caller as they are.
HandleExceptionReraise ==
  /\ pc = "except"
  /\ outcome' = Raised(exc)
  /\ exc' = NoExc
  /\ pc' = "done"
  /\ UNCHANGED <<response, given, raw_text, cleaned, steps, calls, inv, prev>>

\* Lines 90-98: an HTTPException goes on to the caller as it is, any other
\* exception is wrapped in an HTTPException with status 502.
HandleException ==
  /\ pc = "except"
  /\ outcome' = IF exc.type = "HTTPException"
                  THEN Raised(exc)
                  ELSE Raised(HTTPException(502, VisionErrorDetail(exc.detail[1])))
  /\ exc' = NoExc
  /\ pc' = "done"
  /\ UNCHANGED <<response, given, raw_text, cleaned, steps, calls, inv, prev>>

\* The caller runs the method again on the same captured response.
Reinvoke ==
  /\ pc = "done"
  /\ inv < MaxInvocations
  /\ inv' = inv + 1
  /\ prev' = outcome
  /\ pc' = "call"
  /\ raw_text' = <<>>
  /\ cleaned' = <<>>
  /\ outcome' = NoOutcome
  /\ steps' = <<>>
  /\ calls' = 0
  /\ UNCHANGED <<response, given, exc>>

Next ==
  \/ GenerateContent
  \/ ExtractJson
  \/ FirstAttempt
  \/ AttemptRepair
  \/ HandleException
  \/ Reinvoke

Spec == Init /\ [][Next]_vars


\* ================================================================ claims

Ran(step) == \E i \in 1..Len(steps) : steps[i] = step
IsObject(text) == Decode(text).ok /\ Decode(text).val.t = "obj"
HasChar(text, ch) == \E i \in 1..Len(text) : text[i] = ch
HasFence(text) == \E i \in 1..Len(text) : MatchAt(text, i, Fence)
RepairFailed == Raised(HTTPException(502, RepairFailedDetail))

\* C1: whatever the model call does and whatever text it returns, an
\* invocation is always at one of its steps or at its end, an exception in
\* flight is always on its way to the except clauses, and what the caller
\* holds at the end is either a decoded JSON value or an HTTPException with
\* status 502, never an exception of another type.
C1_TwoTerminalStates ==
  /\ pc \in {"call", "locate", "decode", "repair", "except", "done"}
  /\ exc # NoExc <=> pc = "except"
  /\ pc # "done" => outcome = NoOutcome
  /\ pc = "done" =>
       \/ outcome.kind = "returned" /\ outcome.val.t \in {"obj", "arr", "str", "num"}
       \/ outcome.kind = "HTTPException" /\ outcome.status = 502
C1_Witness ==
  /\ pc = "done"
  /\ response.kind = "text"
  /\ Ran("repair")
  /\ outcome.kind = "HTTPException"

\* C2: when the model call raises, the caller gets the HTTPException with
\* status 502 and detail "Gemini Vision API Error: <cause>", and the
\* invocation has run nothing but the call: not _extract_json, not the
\* decoder, not _attempt_repair.
C2_UpstreamError ==
  response.kind = "raise" =>
    /\ ~Ran("locate") /\ ~Ran("decode") /\ ~Ran("repair")
    /\ pc = "done" =>
         /\ outcome = Raised(HTTPException(502, VisionErrorDetail(response.cause)))
         /\ steps = <<"call">>
C2_Witness ==
  /\ pc = "done"
  /\ response.kind = "raise"
  /\ outcome.kind = "HTTPException"

\* C3 (as claimed): a raw text without any "{" always ends with the
\* repair-failed error and never returns a value.
C3_NoBraceAlwaysFails ==
  (pc = "done" /\ response.kind = "text" /\ ~HasChar(response.text, LB))
    => outcome = RepairFailed

\* The upstream wrote one well-formed object between the two parts of a wrap.
OneWrappedObject == response.kind = "text" /\ IsObject(given.body)

CutObject ==
  /\ response.kind = "text"
  /\ IsObject(WithBrace(response.text))
  /\ Count(response.text, LB) = Count(response.text, RB) + 1

\* C5 (as claimed): for every well-formed object text that lost its final
\* "}", the invocation returns the object the whole text decodes to.
C5_AnyCutObject ==
  (pc = "done" /\ CutObject)
    => outcome = Returned(Decode(WithBrace(response.text)).val)

\* C5 (amended): the same, when nothing but whitespace follows the last "}"
\* left in the cut text (also when no "}" is left) and the text holds no
\* fence marker.
C5_CutAfterLastBrace ==
  (/\ pc = "done" /\ CutObject
   /\ LastClose(Strip(response.text)) \in {0, Len(Strip(response.text))}
   /\ ~HasFence(response.text))
    => outcome = Returned(Decode(WithBrace(response.text)).val)
C5_Witness ==
  /\ pc = "done" /\ CutObject
  /\ LastClose(response.text) = Len(response.text)
  /\ ~HasFence(response.text)
  /\ Ran("repair")
  /\ outcome = Returned(Decode(WithBrace(response.text)).val)

RECURSIVE Unstray(_, _, _)
\* The text from position i on, without the commas that stand outside a
\* string literal directly before "}" or "]" (quoted: i is inside a string).
Unstray(text, i, quoted) ==
  IF i > Len(text) THEN <<>>
  ELSE IF text[i] = QT THEN <<QT>> \o Unstray(text, i + 1, ~quoted)
  ELSE IF /\ ~quoted /\ text[i] = CM
          /\ i < Len(text) /\ text[i + 1] \in {RB, RK}
    THEN Unstray(text, i + 1, quoted)
  ELSE <<text[i]>> \o Unstray(text, i + 1, quoted)

RECURSIVE QuotedCommaCloser(_, _, _)
\* Some string literal of the text holds ",}" or ",]".
QuotedCommaCloser(text, i, quoted) ==
  IF i >= Len(text) THEN FALSE
  ELSE IF text[i] = QT THEN QuotedCommaCloser(text, i + 1, ~quoted)
  ELSE (quoted /\ text[i] = CM /\ text[i + 1] \in {RB, RK})
       \/ QuotedCommaCloser(text, i + 1, quoted)

\* The candidate fails the first attempt only for its trailing commas.
OnlyTrailingCommas ==
  /\ Ran("repair")
  /\ ~Decode(cleaned).ok
  /\ Decode(Unstray(cleaned, 1, FALSE)).ok

\* C6 (as claimed): a candidate that fails the first attempt only for commas
\* directly before "}" or "]" is repaired to the value of the same text
\* written without those commas.
C6_AnyTrailingCommas ==
  (pc = "done" /\ OnlyTrailingCommas)
    => outcome = Returned(Decode(Unstray(cleaned, 1, FALSE)).val)

\* C6 (amended): the same, when no string literal of the candidate holds
\* ",}" or ",]".
C6_CommasOutsideStrings ==
  (pc = "done" /\ OnlyTrailingCommas /\ ~QuotedCommaCloser(cleaned, 1, FALSE))
    => outcome = Returned(Decode(Unstray(cleaned, 1, FALSE)).val)
C6_Witness ==
  /\ pc = "done" /\ OnlyTrailingCommas
  /\ ~QuotedCommaCloser(cleaned, 1, FALSE)
  /\ \E i \in 1..Len(cleaned) : MatchAt(cleaned, i, <<CM, RB>>)
  /\ \E i \in 1..Len(cleaned) : MatchAt(cleaned, i, <<CM, RK>>)
  /\ outcome.kind = "returned"

\* C7: _attempt_repair tries each heuristic on the candidate it was given:
\* the candidate with "}" appended when "{" occurs once more than "}", else
\* (or when that does not decode) the candidate with ",}" and ",]" replaced;
\* the second never sees the "}" of the first, and when neither decodes the
\* repair-failed error is raised and nothing is returned.
C7_IndependentHeuristics ==
  (pc = "done" /\ Ran("repair")) =>
    LET first == Decode(cleaned \o <<RB>>)
        second == Decode(Replace(Replace(cleaned, <<CM, RB>>, <<RB>>), <<CM, RK>>, <<RK>>))
    IN IF Count(cleaned, LB) = Count(cleaned, RB) + 1 /\ first.ok
         THEN outcome = Returned(first.val)
       ELSE IF second.ok THEN outcome = Returned(second.val)
       ELSE outcome = RepairFailed
\* Chaining the two heuristics would have repaired this candidate.
C7_Witness ==
  /\ pc = "done" /\ Ran("repair")
  /\ Count(cleaned, LB) = Count(cleaned, RB) + 1
  /\ Decode(RemoveTrailingCommas(WithBrace(cleaned))).ok
  /\ outcome = RepairFailed

\* C8 (as claimed): every value an invocation returns is a JSON object.
C8_ReturnsObject ==
  (pc = "done" /\ outcome.kind = "returned") => outcome.val.t = "obj"

IsPrefix(a, b) == Len(a) <= Len(b) /\ a = SubSeq(b, 1, Len(a))

\* C10: an invocation runs its steps in the order call, locate, decode,
\* repair; it calls the model once and never again, whatever fails; and it
\* enters the repair only when the first decode of the candidate failed.
C10_FixedOrder ==
  /\ IsPrefix(steps, <<"call", "locate", "decode", "repair">>)
  /\ calls <= 1
  /\ pc = "done" => calls = 1
  /\ Ran("repair") => ~Decode(cleaned).ok
C10_Witness ==
  /\ pc = "done"
  /\ steps = <<"call", "locate", "decode", "repair">>
  /\ calls = 1
  /\ outcome.kind = "returned"

====
